---- MODULE Spec2Model ----
(***************************************************************************)
(* Model of the genre browse page parser (ytmusicapi/parsers/genre.py) and *)
(* of the genre mixin (ytmusicapi/mixins/genre.py).                        *)
(*                                                                         *)
(* A JSON value is a record tagged by its kind k:                          *)
(*   [k |-> "null"], [k |-> "num", v |-> n], [k |-> "str", v |-> "..."],   *)
(*   [k |-> "list", v |-> <<...>>], [k |-> "map", v |-> function on keys]. *)
(* A Python exception leaving a function is the value Raised.              *)
(* Dicts the parser itself builds (cards, songs, sections, the page) are   *)
(* TLA+ records whose fields are JSON values.                               *)
(***************************************************************************)
EXTENDS Integers, Sequences, FiniteSets, TLC

VARIABLES
    op,        \* the function or method called
    arg,       \* its argument(s)
    pc,        \* where the call stands: "call", "header", "contents", "loop",
               \* "done" (returned) or "raised" (left by an exception)
    requests,  \* the requests sent to the service so far
    doc,       \* the document parse_genre_contents parses
    results,   \* the results dict of parse_genre_contents
    idx,       \* the position of its loop in the section list
    ret        \* what the call returned

vars == <<op, arg, pc, requests, doc, results, idx, ret>>

(***************************** JSON and Python *****************************)

None == [k |-> "null"]

Raised == [k |-> "raised"]

Num(n) == [k |-> "num", v |-> n]

Str(s) == [k |-> "str", v |-> s]

List(q) == [k |-> "list", v |-> q]

Map(f) == [k |-> "map", v |-> f]

EmptyMap == Map(<<>>)

EmptyList == List(<<>>)

\* bool(x)
Truthy(x) ==
    CASE x.k = "null" -> FALSE
      [] x.k = "num" -> x.v # 0
      [] x.k = "str" -> Len(x.v) > 0
      [] x.k = "list" -> Len(x.v) > 0
      [] x.k = "map" -> DOMAIN x.v # {}

\* x or d
Or(x, d) == IF Truthy(x) THEN x ELSE d

\* sub in s, for two strings
Contains(s, sub) ==
    \E i \in 1..(Len(s) - Len(sub) + 1) : SubSeq(s, i, i + Len(sub) - 1) = sub

\* s.startswith(p)
StartsWith(s, p) == Len(s) >= Len(p) /\ SubSeq(s, 1, Len(p)) = p

\* s.endswith(p)
EndsWith(s, p) == Len(s) >= Len(p) /\ SubSeq(s, Len(s) - Len(p) + 1, Len(s)) = p

UpperLetters == "ABCDEFGHIJKLMNOPQRSTUVWXYZ"

LowerLetters == "abcdefghijklmnopqrstuvwxyz"

LowerChar(c) ==
    IF \E i \in 1..Len(UpperLetters) : SubSeq(UpperLetters, i, i) = c
    THEN LET i == CHOOSE j \in 1..Len(UpperLetters) : SubSeq(UpperLetters, j, j) = c
         IN SubSeq(LowerLetters, i, i)
    ELSE c

\* s.lower()
RECURSIVE Lower(_)
Lower(s) ==
    IF Len(s) = 0 THEN ""
    ELSE LowerChar(SubSeq(s, 1, 1)) \o Lower(SubSeq(s, 2, Len(s)))

Whitespace == {" ", "\t", "\n", "\r"}

\* s.rstrip()
RECURSIVE Rstrip(_)
Rstrip(s) ==
    IF Len(s) > 0 /\ SubSeq(s, Len(s), Len(s)) \in Whitespace
    THEN Rstrip(SubSeq(s, 1, Len(s) - 1))
    ELSE s

\* the operand of "key in x" supports the test (None and numbers raise TypeError)
CanContain(x) == x.k \in {"map", "list", "str"}

\* key in x, for a container x
In(key, x) ==
    CASE x.k = "map" -> key \in DOMAIN x.v
      [] x.k = "list" -> \E i \in 1..Len(x.v) : x.v[i] = Str(key)
      [] x.k = "str" -> Contains(x.v, key)
      [] OTHER -> FALSE

\* x[key] for a string key, once "key in x" held
Subscript(x, key) == IF x.k = "map" THEN x.v[key] ELSE Raised

\* x.get(key, default): an attribute of mappings only
Get(x, key, default) ==
    IF x.k # "map" THEN Raised
    ELSE IF key \in DOMAIN x.v THEN x.v[key] ELSE default

RECURSIVE SetToSeq(_)
SetToSeq(S) ==
    IF S = {} THEN <<>>
    ELSE LET e == CHOOSE y \in S : TRUE IN <<e>> \o SetToSeq(S \ {e})

\* "for e in x" is possible (None and numbers raise TypeError)
CanIter(x) == x.k \in {"list", "str", "map"}

\* the elements "for e in x" visits
Iter(x) ==
    CASE x.k = "list" -> x.v
      [] x.k = "str" -> [i \in 1..Len(x.v) |-> Str(SubSeq(x.v, i, i))]
      [] x.k = "map" -> LET ks == SetToSeq(DOMAIN x.v)
                        IN [i \in 1..Len(ks) |-> Str(ks[i])]
      [] OTHER -> <<>>

(******************************* navigation *******************************)

K(name) == [t |-> "key", v |-> name]

I(n) == [t |-> "idx", v |-> n]

TITLE_TEXT == <<K("title"), K("runs"), I(0), K("text")>>

THUMBNAIL_RENDERER == <<K("thumbnailRenderer"), K("musicThumbnailRenderer"),
                        K("thumbnail"), K("thumbnails")>>

THUMBNAILS == <<K("thumbnail"), K("musicThumbnailRenderer"),
                K("thumbnail"), K("thumbnails")>>

\* nav(root, items, True): the value at the path, None where the path is absent
RECURSIVE nav(_, _)
nav(root, items) ==
    IF items = <<>> THEN root
    ELSE LET p == Head(items) IN
         IF p.t = "key"
         THEN IF root.k = "map" /\ p.v \in DOMAIN root.v
              THEN nav(root.v[p.v], Tail(items))
              ELSE None
         ELSE IF root.k = "list" /\ p.v + 1 <= Len(root.v)
              THEN nav(root.v[p.v + 1], Tail(items))
              ELSE None

\* len(x) is defined (None and numbers raise TypeError)
Sized(x) == x.k \in {"list", "str", "map"}

\* len(x)
PyLen(x) ==
    CASE x.k = "list" -> Len(x.v)
      [] x.k = "str" -> Len(x.v)
      [] x.k = "map" -> Cardinality(DOMAIN x.v)
      [] OTHER -> 0

\* x[n] for an integer n < len(x): a mapping has no integer key (KeyError)
Index(x, n) ==
    CASE x.k = "list" -> x.v[n + 1]
      [] x.k = "str" -> Str(SubSeq(x.v, n + 1, n + 1))
      [] OTHER -> Raised

BROWSE_ID == <<K("navigationEndpoint"), K("browseEndpoint"), K("browseId")>>

VIDEO_ID == <<K("navigationEndpoint"), K("watchEndpoint"), K("videoId")>>

TEXT_RUNS == <<K("text"), K("runs")>>

FLEX_COLUMN == "musicResponsiveListItemFlexColumnRenderer"

(********************************* cards **********************************)

\* mutant: the album prefix of the song parser used for cards
GetTypeAlbumPrefixMPREb(browse_id) ==
    IF ~Truthy(browse_id) THEN Str("playlist")
    ELSE IF browse_id.k # "str" THEN Raised
    ELSE IF StartsWith(browse_id.v, "MPREb") THEN Str("album")
    ELSE IF StartsWith(browse_id.v, "UC") THEN Str("artist")
    ELSE Str("playlist")

_get_type_from_browse_id(browse_id) ==
    IF ~Truthy(browse_id) THEN Str("playlist")
    ELSE IF browse_id.k # "str" THEN Raised
    ELSE IF StartsWith(browse_id.v, "MPRE") THEN Str("album")
    ELSE IF StartsWith(browse_id.v, "UC") THEN Str("artist")
    ELSE Str("playlist")

\* "".join([r.get("text", "") for r in runs]) from position i on, after acc
RECURSIVE JoinTexts(_, _, _)
JoinTexts(runs, i, acc) ==
    IF i > Len(runs) THEN Str(acc)
    ELSE LET t == Get(runs[i], "text", Str("")) IN
         IF t = Raised \/ t.k # "str" THEN Raised
         ELSE JoinTexts(runs, i + 1, acc \o t.v)

parse_two_row_item(item) ==
    IF ~CanContain(item) THEN Raised
    ELSE IF ~In("musicTwoRowItemRenderer", item) THEN None
    ELSE LET renderer == Subscript(item, "musicTwoRowItemRenderer") IN
         IF renderer = Raised THEN Raised
         ELSE LET title == nav(renderer, TITLE_TEXT)
                  subtitle_runs == Or(nav(renderer, <<K("subtitle"), K("runs")>>),
                                      EmptyList)
                  subtitle == IF CanIter(subtitle_runs)
                              THEN JoinTexts(Iter(subtitle_runs), 1, "")
                              ELSE Raised
                  browse_id == nav(renderer, BROWSE_ID)
                  thumbnails == nav(renderer, <<K("thumbnailRenderer")>>
                                              \o THUMBNAIL_RENDERER \o THUMBNAILS)
                  result_type == _get_type_from_browse_id(browse_id)
              IN IF subtitle = Raised \/ result_type = Raised THEN Raised
                 ELSE [resultType |-> result_type,
                       title |-> title,
                       subtitle |-> subtitle,
                       browseId |-> browse_id,
                       thumbnails |-> thumbnails]

\* mutant: the guard on the section type is missing, every item sets it
RECURSIVE CarouselItemsLastType(_, _, _)
CarouselItemsLastType(items, i, result) ==
    IF i > Len(items) THEN result
    ELSE LET parsed == parse_two_row_item(items[i]) IN
         IF parsed = Raised THEN Raised
         ELSE IF parsed # None
              THEN CarouselItemsLastType(items, i + 1,
                       [result EXCEPT !.items = Append(@, parsed),
                                      !.type = Str(parsed.resultType.v \o "s")])
              ELSE CarouselItemsLastType(items, i + 1, result)

\* the loop of parse_carousel_shelf from item i on
RECURSIVE CarouselItems(_, _, _)
CarouselItems(items, i, result) ==
    IF i > Len(items) THEN result
    ELSE LET parsed == parse_two_row_item(items[i]) IN
         IF parsed = Raised THEN Raised
         ELSE IF parsed # None
              THEN CarouselItems(items, i + 1,
                       [result EXCEPT !.items = Append(@, parsed),
                                      !.type = IF @ = Str("unknown")
                                               THEN Str(parsed.resultType.v \o "s")
                                               ELSE @])
              ELSE CarouselItems(items, i + 1, result)

parse_carousel_shelf(shelf) ==
    LET result == [title |-> nav(shelf, <<K("header"),
                                 K("musicCarouselShelfBasicHeaderRenderer")>>
                                 \o TITLE_TEXT),
                   type |-> Str("unknown"),
                   items |-> <<>>]
        contents == Get(shelf, "contents", EmptyList)
    IN IF contents = Raised \/ ~CanIter(contents) THEN Raised
       ELSE CarouselItems(Iter(contents), 1, result)

\* the loop of parse_grid_renderer from item i on
RECURSIVE GridItems(_, _, _)
GridItems(items, i, result) ==
    IF i > Len(items) THEN result
    ELSE LET parsed == parse_two_row_item(items[i]) IN
         IF parsed = Raised THEN Raised
         ELSE IF parsed # None
              THEN GridItems(items, i + 1, [result EXCEPT !.items = Append(@, parsed)])
              ELSE GridItems(items, i + 1, result)

parse_grid_renderer(grid) ==
    LET result == [title |-> nav(grid, <<K("header"), K("gridHeaderRenderer")>>
                                       \o TITLE_TEXT),
                   type |-> Str("playlists"),
                   items |-> <<>>]
        items == Get(grid, "items", EmptyList)
    IN IF items = Raised \/ ~CanIter(items) THEN Raised
       ELSE GridItems(Iter(items), 1, result)

(********************************* songs **********************************)

\* mutant: the case of the text is not folded before the "view" test
IsViewCountCaseSensitive(text) ==
    \/ Contains(text, "view")
    \/ EndsWith(Rstrip(text), "M")
    \/ EndsWith(Rstrip(text), "K")
    \/ EndsWith(Rstrip(text), "B")

_is_view_count(text) ==
    LET text_lower == Lower(text) IN
    \/ Contains(text_lower, "view")
    \/ EndsWith(Rstrip(text), "M")
    \/ EndsWith(Rstrip(text), "K")
    \/ EndsWith(Rstrip(text), "B")

\* mutant: the album is kept once set
SongRunFirstAlbum(song, run) ==
    LET text == Get(run, "text", Str(""))
        browse_id == nav(run, BROWSE_ID)
    IN IF text = Raised THEN Raised
       ELSE IF Truthy(browse_id)
       THEN IF browse_id.k # "str" THEN Raised
            ELSE IF StartsWith(browse_id.v, "UC")
            THEN [song EXCEPT !.artists = Append(@, [name |-> text, id |-> browse_id])]
            ELSE IF StartsWith(browse_id.v, "MPREb") /\ song.album = None
            THEN [song EXCEPT !.album = [name |-> text, id |-> browse_id]]
            ELSE song
       ELSE IF text.k # "str" THEN Raised
       ELSE IF _is_view_count(text.v) THEN [song EXCEPT !.views = text]
       ELSE song

\* the body of the loop over the runs of the second flexible column
SongRun(song, run) ==
    LET text == Get(run, "text", Str(""))
        browse_id == nav(run, BROWSE_ID)
    IN IF text = Raised THEN Raised
       ELSE IF Truthy(browse_id)
       THEN IF browse_id.k # "str" THEN Raised
            ELSE IF StartsWith(browse_id.v, "UC")
            THEN [song EXCEPT !.artists = Append(@, [name |-> text, id |-> browse_id])]
            ELSE IF StartsWith(browse_id.v, "MPREb")
            THEN [song EXCEPT !.album = [name |-> text, id |-> browse_id]]
            ELSE song
       ELSE IF text.k # "str" THEN Raised
       ELSE IF _is_view_count(text.v) THEN [song EXCEPT !.views = text]
       ELSE song

\* the loop over the runs of the second flexible column, from run i on
RECURSIVE SongRuns(_, _, _)
SongRuns(runs, i, song) ==
    IF i > Len(runs) THEN song
    ELSE LET s == SongRun(song, runs[i]) IN
         IF s = Raised THEN Raised ELSE SongRuns(runs, i + 1, s)

\* "if len(flex_columns) > 0": title and video id from the first column
SongFirstColumn(flex_columns, song) ==
    IF ~Sized(flex_columns) THEN Raised
    ELSE IF PyLen(flex_columns) > 0
    THEN LET c == Index(flex_columns, 0)
             col == IF c = Raised THEN Raised ELSE Get(c, FLEX_COLUMN, EmptyMap)
             runs == IF col = Raised THEN Raised ELSE Or(nav(col, TEXT_RUNS), EmptyList)
         IN IF runs = Raised THEN Raised
            ELSE IF Truthy(runs)
            THEN LET r == Index(runs, 0)
                     t == IF r = Raised THEN Raised ELSE Get(r, "text", None)
                 IN IF t = Raised THEN Raised
                    ELSE [song EXCEPT !.title = t, !.videoId = nav(r, VIDEO_ID)]
            ELSE song
    ELSE song

\* "if len(flex_columns) > 1": artists, album and views from the second column
SongSecondColumn(flex_columns, song) ==
    IF PyLen(flex_columns) > 1
    THEN LET c == Index(flex_columns, 1)
             col == IF c = Raised THEN Raised ELSE Get(c, FLEX_COLUMN, EmptyMap)
             runs == IF col = Raised THEN Raised ELSE Or(nav(col, TEXT_RUNS), EmptyList)
         IN IF runs = Raised \/ ~CanIter(runs) THEN Raised
            ELSE SongRuns(Iter(runs), 1, song)
    ELSE song

parse_genre_song(item) ==
    IF ~CanContain(item) THEN Raised
    ELSE IF ~In("musicResponsiveListItemRenderer", item) THEN None
    ELSE LET renderer == Subscript(item, "musicResponsiveListItemRenderer")
             flex_columns == IF renderer = Raised THEN Raised
                             ELSE Get(renderer, "flexColumns", EmptyList)
             song == [resultType |-> Str("song"),
                      title |-> None,
                      videoId |-> None,
                      artists |-> <<>>,
                      album |-> None,
                      views |-> None,
                      thumbnails |-> None]
             s1 == IF flex_columns = Raised THEN Raised
                   ELSE SongFirstColumn(flex_columns, song)
             s2 == IF s1 = Raised THEN Raised ELSE SongSecondColumn(flex_columns, s1)
         IN IF s2 = Raised THEN Raised
            ELSE [s2 EXCEPT !.thumbnails = nav(renderer, <<K("thumbnail")>>
                                               \o THUMBNAIL_RENDERER \o THUMBNAILS)]

\* the loop of parse_music_shelf from item i on
RECURSIVE ShelfItems(_, _, _)
ShelfItems(items, i, result) ==
    IF i > Len(items) THEN result
    ELSE LET parsed == parse_genre_song(items[i]) IN
         IF parsed = Raised THEN Raised
         ELSE IF parsed # None
              THEN ShelfItems(items, i + 1, [result EXCEPT !.items = Append(@, parsed)])
              ELSE ShelfItems(items, i + 1, result)

parse_music_shelf(shelf) ==
    LET result == [title |-> nav(shelf, TITLE_TEXT),
                   type |-> Str("songs"),
                   items |-> <<>>]
        contents == Get(shelf, "contents", EmptyList)
    IN IF contents = Raised \/ ~CanIter(contents) THEN Raised
       ELSE ShelfItems(Iter(contents), 1, result)

(******************************** the page ********************************)

parse_genre_section(section) ==
    IF ~CanContain(section) THEN Raised
    ELSE IF In("musicCarouselShelfRenderer", section)
    THEN LET r == Subscript(section, "musicCarouselShelfRenderer") IN
         IF r = Raised THEN Raised ELSE parse_carousel_shelf(r)
    ELSE IF In("musicShelfRenderer", section)
    THEN LET r == Subscript(section, "musicShelfRenderer") IN
         IF r = Raised THEN Raised ELSE parse_music_shelf(r)
    ELSE IF In("gridRenderer", section)
    THEN LET r == Subscript(section, "gridRenderer") IN
         IF r = Raised THEN Raised ELSE parse_grid_renderer(r)
    ELSE None

parse_genre_header(response) ==
    LET header == Get(response, "header", EmptyMap) IN
    IF header = Raised \/ ~CanContain(header) THEN Raised
    ELSE IF In("musicHeaderRenderer", header)
    THEN [title |-> nav(header, <<K("musicHeaderRenderer")>> \o TITLE_TEXT)]
    ELSE IF In("musicImmersiveHeaderRenderer", header)
    THEN LET ihr == Subscript(header, "musicImmersiveHeaderRenderer") IN
         IF ihr = Raised THEN Raised
         ELSE [title |-> nav(ihr, TITLE_TEXT),
               thumbnail |-> nav(ihr, <<K("thumbnail")>>
                                      \o THUMBNAIL_RENDERER \o THUMBNAILS)]
    ELSE None

\* mutant: artist carousels are filed under albums
CategorizeArtistsAsAlbums(res, section) ==
    LET section_type == section.type
        items == section.items
    IN IF section_type = Str("songs") THEN [res EXCEPT !.songs = @ \o items]
       ELSE IF section_type = Str("playlists") THEN [res EXCEPT !.playlists = @ \o items]
       ELSE IF section_type = Str("albums") THEN [res EXCEPT !.albums = @ \o items]
       ELSE IF section_type = Str("artists") THEN [res EXCEPT !.albums = @ \o items]
       ELSE res

_categorize_section(res, section) ==
    LET section_type == section.type
        items == section.items
    IN IF section_type = Str("songs") THEN [res EXCEPT !.songs = @ \o items]
       ELSE IF section_type = Str("playlists") THEN [res EXCEPT !.playlists = @ \o items]
       ELSE IF section_type = Str("albums") THEN [res EXCEPT !.albums = @ \o items]
       ELSE IF section_type = Str("artists") THEN [res EXCEPT !.artists = @ \o items]
       ELSE res

SECTION_LIST == <<K("contents"), K("singleColumnBrowseResultsRenderer"), K("tabs"),
                  I(0), K("tabRenderer"), K("content"), K("sectionListRenderer"),
                  K("contents")>>

\* the results dict parse_genre_contents starts from
NewResults ==
    [header |-> None, songs |-> <<>>, playlists |-> <<>>, albums |-> <<>>,
     artists |-> <<>>, sections |-> <<>>]

\* mutant: the section is categorized but not kept in sections
SectionStepNoAppend(res, section) ==
    LET parsed == parse_genre_section(section) IN
    IF parsed = Raised THEN Raised
    ELSE IF parsed # None THEN _categorize_section(res, parsed)
    ELSE res

\* mutant: a section without items is not kept
SectionStepDropEmpty(res, section) ==
    LET parsed == parse_genre_section(section) IN
    IF parsed = Raised THEN Raised
    ELSE IF parsed # None /\ parsed.items # <<>>
         THEN _categorize_section([res EXCEPT !.sections = Append(@, parsed)], parsed)
         ELSE res

\* the body of the loop over the section nodes
SectionStep(res, section) ==
    LET parsed == parse_genre_section(section) IN
    IF parsed = Raised THEN Raised
    ELSE IF parsed # None
         THEN _categorize_section([res EXCEPT !.sections = Append(@, parsed)], parsed)
         ELSE res

\* the loop over the section nodes, from node i on
RECURSIVE SectionsLoop(_, _, _)
SectionsLoop(nodes, i, res) ==
    IF i > Len(nodes) THEN res
    ELSE LET r == SectionStep(res, nodes[i]) IN
         IF r = Raised THEN Raised ELSE SectionsLoop(nodes, i + 1, r)

\* parse_genre_contents as one call (what browse_genre returns)
parse_genre_contents(response) ==
    LET header == parse_genre_header(response)
        contents == nav(response, SECTION_LIST)
    IN IF header = Raised THEN Raised
       ELSE IF ~Truthy(contents) THEN [NewResults EXCEPT !.header = header]
       ELSE IF ~CanIter(contents) THEN Raised
       ELSE SectionsLoop(Iter(contents), 1, [NewResults EXCEPT !.header = header])

(****************************** the documents *****************************)

MaxSections == 2

\* the sequences over S of length at most n
SeqsUpTo(S, n) == UNION {[1..m -> S] : m \in 0..n}

Title(text) == Map([runs |-> List(<<Map([text |-> Str(text)])>>)])

BrowseEndpoint(id) == Map([browseEndpoint |-> Map([browseId |-> id])])

\* a run of text, linked to a browse id or (NoLink) not linked
LinkedRun(text, id) == Map([text |-> Str(text), navigationEndpoint |-> BrowseEndpoint(id)])

TextRun(text) == Map([text |-> Str(text)])

\* an entity card: {"musicTwoRowItemRenderer": {title, subtitle, navigationEndpoint}}
Card(title, id) ==
    Map([musicTwoRowItemRenderer |->
            Map([title |-> Title(title),
                 subtitle |-> Map([runs |-> List(<<TextRun("Album"), TextRun(" 2020")>>)]),
                 navigationEndpoint |-> BrowseEndpoint(id)])])

CardNoId(title) == Map([musicTwoRowItemRenderer |-> Map([title |-> Title(title)])])

BareCard == Map([musicTwoRowItemRenderer |-> EmptyMap])

\* an item that holds neither inner renderer key
OtherItem == Map([continuationItemRenderer |-> EmptyMap])

FlexColumn(runs) == Map([musicResponsiveListItemFlexColumnRenderer |->
                            Map([text |-> Map([runs |-> runs])])])

TitleRun(text, videoId) ==
    Map([text |-> Str(text),
         navigationEndpoint |-> Map([watchEndpoint |-> Map([videoId |-> Str(videoId)])])])

\* a list item: {"musicResponsiveListItemRenderer": {"flexColumns": [...]}}
SongItem(columns) == Map([musicResponsiveListItemRenderer |-> Map([flexColumns |-> List(columns)])])

BareSong == Map([musicResponsiveListItemRenderer |-> EmptyMap])

Carousel(title, items) ==
    Map([musicCarouselShelfRenderer |->
            Map([header |-> Map([musicCarouselShelfBasicHeaderRenderer |->
                                    Map([title |-> Title(title)])]),
                 contents |-> List(items)])])

MusicShelf(title, items) ==
    Map([musicShelfRenderer |-> Map([title |-> Title(title), contents |-> List(items)])])

Grid(title, items) ==
    Map([gridRenderer |->
            Map([header |-> Map([gridHeaderRenderer |-> Map([title |-> Title(title)])]),
                 items |-> List(items)])])

SectionList(contents) ==
    Map([singleColumnBrowseResultsRenderer |->
            Map([tabs |-> List(<<Map([tabRenderer |->
                    Map([content |-> Map([sectionListRenderer |->
                            Map([contents |-> contents])])])])>>)])])

Response(header, contents) == Map([header |-> header, contents |-> SectionList(contents)])

AlbumCard == Card("Abbey Road", Str("MPREb_1"))

ArtistCard == Card("Queen", Str("UC1"))

PlaylistCard == Card("Rock Hits", Str("VLPL1"))

FullSong ==
    SongItem(<<FlexColumn(List(<<TitleRun("Song", "v1")>>)),
               FlexColumn(List(<<LinkedRun("Queen", Str("UC1")), TextRun(" - "),
                                 LinkedRun("Jazz", Str("MPREb_1")), TextRun(" - "),
                                 TextRun("1.2M views")>>))>>)

\* section nodes every lookup of which succeeds or is absent
SectionNodes ==
    { Carousel("Albums", <<AlbumCard>>),
      Carousel("Artists", <<ArtistCard, AlbumCard>>),
      Carousel("Playlists", <<OtherItem, PlaylistCard>>),
      Carousel("Empty", <<OtherItem>>),
      Carousel("Bare", <<BareCard>>),
      Map([musicCarouselShelfRenderer |-> EmptyMap]),
      MusicShelf("Songs", <<FullSong>>),
      MusicShelf("More", <<BareSong, OtherItem, FullSong>>),
      Map([musicShelfRenderer |-> EmptyMap]),
      Map([musicShelfRenderer |-> Map([contents |-> List(<<OtherItem, BareSong>>)])]),
      Grid("Playlists", <<PlaylistCard>>),
      Grid("Mixed", <<AlbumCard, OtherItem, ArtistCard>>),
      Map([gridRenderer |-> EmptyMap]),
      Map([musicDescriptionShelfRenderer |-> EmptyMap]),
      Map([musicCarouselShelfRenderer |-> Map([contents |-> List(<<AlbumCard>>)]),
           gridRenderer |-> Map([items |-> List(<<PlaylistCard>>)])]) }

\* section nodes with a value of another JSON type than the parser expects
MalformedNodes ==
    { None,
      Str("x"),
      Map([musicCarouselShelfRenderer |-> None]),
      Map([musicShelfRenderer |-> Map([contents |-> None])]),
      MusicShelf("Songs", <<SongItem(<<FlexColumn(List(<<TitleRun("Song", "v1")>>)),
                                       FlexColumn(List(<<Str("Queen")>>))>>)>>),
      Grid("Playlists", <<Card("P", Num(7))>>) }

Headers ==
    { None, Num(7), Str("h"), EmptyList, EmptyMap,
      Map([musicHeaderRenderer |-> Map([title |-> Title("Rock")])]),
      Map([musicImmersiveHeaderRenderer |-> Map([title |-> Title("Rock")])]) }

\* values at the section list path that are not a list of section nodes
OddContents == { None, Num(0), Num(7), Str("ab"), EmptyList, Map([x |-> None]) }

Documents ==
    {Response(Map([musicHeaderRenderer |-> Map([title |-> Title("Rock")])]), List(q)) :
        q \in SeqsUpTo(SectionNodes \cup MalformedNodes, MaxSections)}
    \cup {Response(h, c) : h \in Headers,
                           c \in OddContents \cup {List(<<MusicShelf("Songs", <<FullSong>>)>>)}}
    \cup {Map([header |-> h]) : h \in Headers}
    \cup {Map([contents |-> SectionList(List(<<Grid("Playlists", <<PlaylistCard>>)>>))]),
          EmptyMap, None, EmptyList}

(********************* parse_genre_contents, step by step ******************)

Init ==
    /\ op = "parse_genre_contents"
    /\ arg \in Documents
    /\ doc = arg
    /\ pc = "header"
    /\ results = NewResults
    /\ idx = 0
    /\ ret = None
    /\ requests = <<>>

\* results["header"] = parse_genre_header(response)
ParseHeader ==
    /\ pc = "header"
    /\ LET header == parse_genre_header(doc) IN
       IF header = Raised
       THEN pc' = "raised" /\ ret' = Raised /\ UNCHANGED results
       ELSE pc' = "contents" /\ results' = [results EXCEPT !.header = header]
                             /\ UNCHANGED ret
    /\ UNCHANGED <<op, arg, doc, idx, requests>>

\* contents = nav(response, [...], True); if not contents: return results
NavContents ==
    /\ pc = "contents"
    /\ LET contents == nav(doc, SECTION_LIST) IN
       IF ~Truthy(contents) THEN pc' = "done" /\ ret' = results /\ UNCHANGED idx
       ELSE IF ~CanIter(contents) THEN pc' = "raised" /\ ret' = Raised /\ UNCHANGED idx
       ELSE pc' = "loop" /\ idx' = 1 /\ UNCHANGED ret
    /\ UNCHANGED <<op, arg, doc, results, requests>>

\* one iteration of "for section in contents"
ParseSection ==
    /\ pc = "loop"
    /\ LET nodes == Iter(nav(doc, SECTION_LIST)) IN
       /\ idx <= Len(nodes)
       /\ LET r == SectionStep(results, nodes[idx]) IN
          IF r = Raised
          THEN pc' = "raised" /\ ret' = Raised /\ UNCHANGED <<results, idx>>
          ELSE results' = r /\ idx' = idx + 1 /\ UNCHANGED <<pc, ret>>
    /\ UNCHANGED <<op, arg, doc, requests>>

\* return results
ReturnResults ==
    /\ pc = "loop"
    /\ idx > Len(Iter(nav(doc, SECTION_LIST)))
    /\ pc' = "done" /\ ret' = results
    /\ UNCHANGED <<op, arg, doc, results, idx, requests>>

Next == ParseHeader \/ NavContents \/ ParseSection \/ ReturnResults

Spec == Init /\ [][Next]_vars

\* the step-by-step run ends as the one-call operator does
StepwiseAgrees ==
    (op = "parse_genre_contents" /\ pc \in {"done", "raised"})
        => ret = parse_genre_contents(doc)

(************************ claims on the parsed page ************************)

\* the section nodes of the document the loop visits
Nodes ==
    LET contents == nav(doc, SECTION_LIST) IN
    IF Truthy(contents) /\ CanIter(contents) THEN Iter(contents) ELSE <<>>

HasKey(node, key) == CanContain(node) /\ In(key, node)

HasSelector(node) ==
    \/ HasKey(node, "musicCarouselShelfRenderer")
    \/ HasKey(node, "musicShelfRenderer")
    \/ HasKey(node, "gridRenderer")

\* which of the three renderers a node with a selector key is dispatched to
Selector(node) ==
    IF HasKey(node, "musicCarouselShelfRenderer") THEN "musicCarouselShelfRenderer"
    ELSE IF HasKey(node, "musicShelfRenderer") THEN "musicShelfRenderer"
    ELSE "gridRenderer"

InnerKey(node) ==
    IF Selector(node) = "musicShelfRenderer" THEN "musicResponsiveListItemRenderer"
    ELSE "musicTwoRowItemRenderer"

\* the items of a selected node, in order
NodeItems(node) ==
    LET listKey == IF Selector(node) = "gridRenderer" THEN "items" ELSE "contents"
        list == nav(node, <<K(Selector(node)), K(listKey)>>)
    IN IF list.k = "list" THEN list.v ELSE <<>>

\* the items of a selected node that hold their inner renderer key, in order
KeptItems(node) ==
    LET holds(item) == HasKey(item, InnerKey(node))
    IN SelectSeq(NodeItems(node), holds)

\* the title the document gives a selected node
NodeTitle(node) ==
    nav(node, <<K(Selector(node))>> \o
              (IF Selector(node) = "musicCarouselShelfRenderer"
               THEN <<K("header"), K("musicCarouselShelfBasicHeaderRenderer")>>
               ELSE IF Selector(node) = "gridRenderer"
               THEN <<K("header"), K("gridHeaderRenderer")>>
               ELSE <<>>) \o TITLE_TEXT)

Returned == op = "parse_genre_contents" /\ pc = "done"

TopLists == {"songs", "playlists", "albums", "artists"}

InItems(item, section) == \E m \in 1..Len(section.items) : section.items[m] = item

SectionsHolding(item) == {i \in 1..Len(ret.sections) : InItems(item, ret.sections[i])}

\* the items of the sections of type t, in section order then item order
RECURSIVE ItemsOfType(_, _)
ItemsOfType(sections, t) ==
    IF sections = <<>> THEN <<>>
    ELSE (IF Head(sections).type = Str(t) THEN Head(sections).items ELSE <<>>)
         \o ItemsOfType(Tail(sections), t)

\* C1: parse_genre_contents is total: whatever the document, malformed ones
\* included, the call returns a page and never raises.
C1_NeverRaises == op = "parse_genre_contents" => pc # "raised"

\* C2 as stated: every item of a top-level list of the returned page equals an
\* item of exactly one section.
C2_InExactlyOneSection ==
    Returned => \A t \in TopLists : \A n \in 1..Len(ret[t]) :
                    Cardinality(SectionsHolding(ret[t][n])) = 1

\* C2 as amended: every item of a top-level list of the returned page equals
\* an item of at least one section.
C2_InSomeSection ==
    Returned => \A t \in TopLists : \A n \in 1..Len(ret[t]) :
                    SectionsHolding(ret[t][n]) # {}

\* a returned page one of whose top-level items is held by two sections
C2_Witness ==
    Returned /\ \E t \in TopLists : \E n \in 1..Len(ret[t]) :
                    Cardinality(SectionsHolding(ret[t][n])) = 2

\* C9: the returned sections are, in document order, the nodes that hold a
\* carousel, shelf or grid key, one each, and the items of each section are, in
\* order, the items of the node that hold their inner renderer key.
C9_DroppedOnlyWithoutSelector ==
    Returned =>
        LET kept == SelectSeq(Nodes, HasSelector) IN
        /\ Len(ret.sections) = Len(kept)
        /\ \A j \in 1..Len(kept) :
              /\ ret.sections[j].title = NodeTitle(kept[j])
              /\ Len(ret.sections[j].items) = Len(KeptItems(kept[j]))
              /\ \A m \in 1..Len(KeptItems(kept[j])) :
                    LET inner == nav(KeptItems(kept[j])[m], <<K(InnerKey(kept[j]))>>) IN
                    IF InnerKey(kept[j]) = "musicTwoRowItemRenderer"
                    THEN /\ ret.sections[j].items[m].title = nav(inner, TITLE_TEXT)
                         /\ ret.sections[j].items[m].browseId = nav(inner, BROWSE_ID)
                    ELSE ret.sections[j].items[m].resultType = Str("song")

\* a returned page of a document with a node without selector key and a
\* section without title that keeps an item all of whose leaf fields are
\* missing and drops an item without the inner renderer key
C9_Witness ==
    /\ Returned
    /\ \E i \in 1..Len(Nodes) : ~HasSelector(Nodes[i])
    /\ \E i \in 1..Len(Nodes) :
          /\ HasSelector(Nodes[i])
          /\ Len(KeptItems(Nodes[i])) < Len(NodeItems(Nodes[i]))
    /\ \E j \in 1..Len(ret.sections) :
          /\ ret.sections[j].title = None
          /\ \E m \in 1..Len(ret.sections[j].items) : ret.sections[j].items[m].title = None

\* C10: each top-level list is the concatenation, in section order then item
\* order, of the items of the sections of its type; a shelf section has type
\* "songs", a grid section type "playlists".
C10_ListsAreConcatenations ==
    Returned =>
        LET kept == SelectSeq(Nodes, HasSelector) IN
        /\ \A t \in TopLists : ret[t] = ItemsOfType(ret.sections, t)
        /\ Len(ret.sections) = Len(kept)
        /\ \A j \in 1..Len(kept) :
              /\ Selector(kept[j]) = "musicShelfRenderer"
                    => ret.sections[j].type = Str("songs")
              /\ Selector(kept[j]) = "gridRenderer"
                    => ret.sections[j].type = Str("playlists")

\* a returned page with two non-empty sections of one type, the second a grid
\* holding a card that is no playlist, or with a section of unknown type
C10_Witness ==
    /\ Returned
    /\ Len(ret.sections) = 2
    /\ ret.sections[1].type = ret.sections[2].type
    /\ ret.sections[1].items # <<>>
    /\ Selector(Nodes[2]) = "gridRenderer"
    /\ \E m \in 1..Len(ret.sections[2].items) :
          ret.sections[2].items[m].resultType = Str("album")

(************** parse_carousel_shelf and parse_grid_renderer ***************)

MaxItems == 3

\* the items a carousel or a grid may hold
ShelfItemSet ==
    { Card("Abbey Road", Str("MPREb_1")),
      Card("Single", Str("MPRE_2")),
      Card("Queen", Str("UC1")),
      Card("Rock Hits", Str("VLPL1")),
      Card("Empty id", Str("")),
      Card("Null id", None),
      Card("Number id", Num(7)),
      CardNoId("No id"),
      OtherItem }

ShelfOps == {"parse_carousel_shelf", "parse_grid_renderer"}

InitShelf ==
    /\ op \in ShelfOps
    /\ \E items \in SeqsUpTo(ShelfItemSet, MaxItems) :
          arg = IF op = "parse_carousel_shelf"
                THEN Map([contents |-> List(items)])
                ELSE Map([items |-> List(items)])
    /\ pc = "call"
    /\ doc = None
    /\ results = NewResults
    /\ idx = 0
    /\ ret = None
    /\ requests = <<>>

CallCarouselShelf ==
    /\ op = "parse_carousel_shelf" /\ pc = "call"
    /\ ret' = parse_carousel_shelf(arg)
    /\ pc' = IF ret' = Raised THEN "raised" ELSE "done"
    /\ UNCHANGED <<op, arg, doc, results, idx, requests>>

CallGridRenderer ==
    /\ op = "parse_grid_renderer" /\ pc = "call"
    /\ ret' = parse_grid_renderer(arg)
    /\ pc' = IF ret' = Raised THEN "raised" ELSE "done"
    /\ UNCHANGED <<op, arg, doc, results, idx, requests>>

NextShelf == CallCarouselShelf \/ CallGridRenderer

SpecShelf == InitShelf /\ [][NextShelf]_vars

ShelfReturned == op \in ShelfOps /\ pc = "done"

\* the result type the prefix rule gives a browse id
TypeByPrefix(id) ==
    IF id = None \/ id = Str("") THEN "playlist"
    ELSE IF StartsWith(id.v, "MPRE") THEN "album"
    ELSE IF StartsWith(id.v, "UC") THEN "artist"
    ELSE "playlist"

\* the items of the argument that hold the two-row renderer, in order
ArgCards ==
    LET list == nav(arg, <<K(IF op = "parse_grid_renderer" THEN "items" ELSE "contents")>>)
        holds(item) == HasKey(item, "musicTwoRowItemRenderer")
    IN SelectSeq(list.v, holds)

ArgBrowseId(item) == nav(item, <<K("musicTwoRowItemRenderer")>> \o BROWSE_ID)

\* C5: the resultType of every card of a carousel or grid is given by the
\* prefix of its browseId: none or empty "playlist", "MPRE" "album", else "UC"
\* "artist", else "playlist".
C5_TypeFromBrowseId ==
    ShelfReturned =>
        /\ Len(ret.items) = Len(ArgCards)
        /\ \A m \in 1..Len(ret.items) :
              /\ ret.items[m].browseId = ArgBrowseId(ArgCards[m])
              /\ ret.items[m].resultType = Str(TypeByPrefix(ret.items[m].browseId))

\* a returned grid with an album, an artist, a playlist by prefix and a card
\* without browse id
C5_Witness ==
    /\ ShelfReturned /\ op = "parse_grid_renderer"
    /\ \E m \in 1..Len(ret.items) : ret.items[m].resultType = Str("album")
    /\ \E m \in 1..Len(ret.items) : ret.items[m].resultType = Str("artist")
    /\ \E m \in 1..Len(ret.items) :
          ret.items[m].resultType = Str("playlist") /\ ~Truthy(ret.items[m].browseId)

\* C6: the type of a carousel section is the resultType of the first item that
\* holds the two-row renderer, with "s" appended, whatever the later items
\* are, and "unknown" exactly when no item holds it.
C6_CarouselTypeFromFirstItem ==
    (ShelfReturned /\ op = "parse_carousel_shelf") =>
        /\ (ret.type = Str("unknown")) <=> (ArgCards = <<>>)
        /\ ArgCards # <<>> =>
              /\ ret.type = Str(TypeByPrefix(ArgBrowseId(ArgCards[1])) \o "s")
              /\ ret.type = Str(ret.items[1].resultType.v \o "s")

\* a returned carousel whose first item is dropped, whose first card is an
\* album and which holds an artist later
C6_Witness ==
    /\ ShelfReturned /\ op = "parse_carousel_shelf"
    /\ Len(arg.v.contents.v) = 3 /\ arg.v.contents.v[1] = OtherItem
    /\ Len(ret.items) = 2
    /\ ret.items[1].resultType = Str("album")
    /\ ret.items[2].resultType = Str("artist")
    /\ ret.type = Str("albums")

(***************************** parse_genre_song ****************************)

MaxRuns == 4

\* the runs the second flexible column may hold
SongRunSet ==
    { LinkedRun("Queen", Str("UC1")),
      LinkedRun("Bowie", Str("UC2")),
      LinkedRun("Jazz", Str("MPREb_1")),
      LinkedRun("Hot Space", Str("MPREb_2")),
      LinkedRun("Single", Str("MPRE_3")),
      LinkedRun("5B", Str("")),
      TextRun("1.2M views"),
      TextRun("2 Views"),
      TextRun("3K "),
      TextRun("Single") }

InitSong ==
    /\ op = "parse_genre_song"
    /\ \E runs \in SeqsUpTo(SongRunSet, MaxRuns) :
          arg = SongItem(<<FlexColumn(List(<<TitleRun("Song", "v1")>>)),
                           FlexColumn(List(runs))>>)
    /\ pc = "call"
    /\ doc = None
    /\ results = NewResults
    /\ idx = 0
    /\ ret = None
    /\ requests = <<>>

CallGenreSong ==
    /\ op = "parse_genre_song" /\ pc = "call"
    /\ ret' = parse_genre_song(arg)
    /\ pc' = IF ret' = Raised THEN "raised" ELSE "done"
    /\ UNCHANGED <<op, arg, doc, results, idx, requests>>

NextSong == CallGenreSong

SpecSong == InitSong /\ [][NextSong]_vars

SongReturned == op = "parse_genre_song" /\ pc = "done"

\* the runs of the second flexible column of the argument
ArgRuns ==
    nav(arg, <<K("musicResponsiveListItemRenderer"), K("flexColumns"), I(1),
               K(FLEX_COLUMN)>> \o TEXT_RUNS).v

RunId(run) == nav(run, BROWSE_ID)

RunHasPrefix(run, prefix) ==
    RunId(run).k = "str" /\ StartsWith(RunId(run).v, prefix)

IsAlbumRun(run) == RunHasPrefix(run, "MPREb")

IsArtistRun(run) == RunHasPrefix(run, "UC")

AsNameId(run) == [name |-> run.v.text, id |-> RunId(run)]

NameIds(runs) == [i \in 1..Len(runs) |-> AsNameId(runs[i])]

\* C3 as stated: the album is the first run with an "MPREb" browse id, and the
\* artists are the runs with a "UC" browse id, in run order.
C3_FirstAlbumWins ==
    SongReturned =>
        LET albums == SelectSeq(ArgRuns, IsAlbumRun) IN
        /\ ret.album = IF albums = <<>> THEN None ELSE AsNameId(albums[1])
        /\ ret.artists = NameIds(SelectSeq(ArgRuns, IsArtistRun))

\* C3 as amended: the album is the last run with an "MPREb" browse id, and the
\* artists are the runs with a "UC" browse id, in run order.
C3_LastAlbumWins ==
    SongReturned =>
        LET albums == SelectSeq(ArgRuns, IsAlbumRun) IN
        /\ ret.album = IF albums = <<>> THEN None ELSE AsNameId(albums[Len(albums)])
        /\ ret.artists = NameIds(SelectSeq(ArgRuns, IsArtistRun))

\* a returned song of two different album runs, with an artist run before them
\* and another artist run after them
C3_Witness ==
    /\ SongReturned
    /\ Len(ArgRuns) = 4
    /\ IsArtistRun(ArgRuns[1]) /\ IsAlbumRun(ArgRuns[2])
    /\ IsAlbumRun(ArgRuns[3]) /\ IsArtistRun(ArgRuns[4])
    /\ ArgRuns[2] # ArgRuns[3] /\ ArgRuns[1] # ArgRuns[4]
    /\ Len(ret.artists) = 2 /\ ret.album # None

\* the texts of SongRunSet that contain "view" in any case or end, trailing
\* whitespace apart, with M, K or B
ViewCountTexts == {"1.2M views", "2 Views", "3K ", "5B"}

\* a run that sets views: no browse id (none or empty) and a view count text
IsViewsRun(run) == ~Truthy(RunId(run)) /\ run.v.text.v \in ViewCountTexts

\* C4 as stated: views is the text of the first run without browse id whose
\* text is a view count, and null when there is none.
C4_FirstViewsWins ==
    SongReturned =>
        LET views == SelectSeq(ArgRuns, IsViewsRun) IN
        ret.views = IF views = <<>> THEN None ELSE views[1].v.text

\* C4 as amended: views is the text of the last run without browse id whose
\* text is a view count, and null when there is none.
C4_LastViewsWins ==
    SongReturned =>
        LET views == SelectSeq(ArgRuns, IsViewsRun) IN
        ret.views = IF views = <<>> THEN None ELSE views[Len(views)].v.text

\* a returned song of two runs with different view count texts and a run
\* without browse id whose text is no view count
C4_Witness ==
    /\ SongReturned
    /\ \E i, j, n \in 1..Len(ArgRuns) :
          /\ i < j
          /\ IsViewsRun(ArgRuns[i]) /\ IsViewsRun(ArgRuns[j])
          /\ ArgRuns[i] # ArgRuns[j]
          /\ ArgRuns[n] = TextRun("Single")
    /\ ret.views # None

(******************************* GenreMixin ********************************)

MaxGenreItems == 2

\* the response of the service to a request: one document per params
_send_request(endpoint, body) ==
    IF endpoint # "browse" THEN EmptyMap
    ELSE IF body.params = Str("p-rock")
    THEN Response(Map([musicHeaderRenderer |-> Map([title |-> Title("Rock")])]),
                  List(<<Grid("Playlists", <<PlaylistCard>>)>>))
    ELSE IF body.params = Str("p-rock-2")
    THEN Map([header |-> Map([musicHeaderRenderer |-> Map([title |-> Title("rock")])])])
    ELSE IF body.params = Str("p-pop")
    THEN Map([header |-> Map([musicHeaderRenderer |-> Map([title |-> Title("Pop")])])])
    ELSE EmptyMap

\* the body of the request browse_genre sends
BrowseBody(params) ==
    [browseId |-> Str("FEmusic_moods_and_genres_category"), params |-> params]

\* browse_genre as one call: what it returns (or Raised) and the requests sent
browse_genre(params) ==
    LET body == BrowseBody(params)
        response == _send_request("browse", body)
    IN [ret |-> parse_genre_contents(response),
        requests |-> <<[endpoint |-> "browse", body |-> body]>>]

\* how the loops of get_genre end: browse_genre(item["params"]) is called, a
\* KeyError is raised, or no title matched
Browse(params) == [k |-> "browse", params |-> params]

NoMatch == [k |-> "no match"]

\* mutant: the titles are compared as they are
GenreItemsScanCaseSensitive(items, i, genre_name) ==
    LET hits == {j \in i..Len(items) :
                    Get(items[j], "title", Str("")) = Str(genre_name)} IN
    IF hits = {} THEN NoMatch
    ELSE LET j == CHOOSE h \in hits : \A g \in hits : h <= g IN
         IF "params" \in DOMAIN items[j].v THEN Browse(items[j].v.params)
         ELSE Raised

\* "for item in cat_items" of get_genre, from item i on
RECURSIVE GenreItemsScan(_, _, _)
GenreItemsScan(items, i, genre_name) ==
    IF i > Len(items) THEN NoMatch
    ELSE LET title == Get(items[i], "title", Str("")) IN
         IF title = Raised \/ title.k # "str" THEN Raised
         ELSE IF Lower(title.v) = Lower(genre_name)
         THEN IF "params" \in DOMAIN items[i].v
              THEN Browse(items[i].v.params)
              ELSE Raised
         ELSE GenreItemsScan(items, i + 1, genre_name)

\* "for cat_items in categories.values()" of get_genre, from category c on
RECURSIVE GenreCategoriesScan(_, _, _)
GenreCategoriesScan(categories, c, genre_name) ==
    IF c > Len(categories) THEN NoMatch
    ELSE LET r == GenreItemsScan(categories[c].items, 1, genre_name) IN
         IF r = NoMatch
         THEN GenreCategoriesScan(categories, c + 1, genre_name)
         ELSE r

\* mutant: an item without title is left out
GenreEntriesSkipUntitled(category_name, items) ==
    LET titled == SelectSeq(items, LAMBDA item : "title" \in DOMAIN item.v) IN
    [i \in 1..Len(titled) |->
        [category |-> category_name,
         title |-> Get(titled[i], "title", None),
         params |-> Get(titled[i], "params", None)]]

\* "for item in items" of list_genres: the entries one category appends
GenreEntries(category_name, items) ==
    [i \in 1..Len(items) |->
        [category |-> category_name,
         title |-> Get(items[i], "title", None),
         params |-> Get(items[i], "params", None)]]

\* "for category_name, items in categories.items()" of list_genres from c on
RECURSIVE ListCategories(_, _, _)
ListCategories(categories, c, genres) ==
    IF c > Len(categories) THEN genres
    ELSE ListCategories(categories, c + 1,
             genres \o GenreEntries(categories[c].name, categories[c].items))

list_genres(categories) == ListCategories(categories, 1, <<>>)

\* the items get_mood_categories may list
GenreItemSet ==
    { Map([title |-> Str("Rock"), params |-> Str("p-rock")]),
      Map([title |-> Str("rock"), params |-> Str("p-rock-2")]),
      Map([params |-> Str("p-untitled")]),
      Map([title |-> Str("Pop")]) }

CategoryNames == <<Str("Genres"), Str("Moods & moments")>>

\* what get_mood_categories may return: the categories in the order of the
\* mapping, each a name and its items
MoodCategories ==
    UNION { { [c \in 1..n |-> [name |-> CategoryNames[c], items |-> lists[c]]] :
                lists \in [1..n -> SeqsUpTo(GenreItemSet, MaxGenreItems)] } :
            n \in 0..Len(CategoryNames) }

GenreNames == {"rock", "pop", "Jazz"}

InitMixin ==
    /\ \/ op = "get_genre" /\ \E cats \in MoodCategories, name \in GenreNames :
                                 arg = [categories |-> cats, genre_name |-> name]
       \/ op = "list_genres" /\ \E cats \in MoodCategories : arg = [categories |-> cats]
       \/ op = "browse_genre" /\ \E p \in {"p-rock", "p-pop", "p-none"} :
                                    arg = [params |-> Str(p)]
    /\ pc = "call"
    /\ doc = None
    /\ results = NewResults
    /\ idx = 0
    /\ ret = None
    /\ requests = <<>>

\* browse_genre: the request is sent, its response is parsed step by step
CallBrowseGenre ==
    /\ op = "browse_genre" /\ pc = "call"
    /\ requests' = Append(requests, [endpoint |-> "browse", body |-> BrowseBody(arg.params)])
    /\ doc' = _send_request("browse", BrowseBody(arg.params))
    /\ pc' = "header"
    /\ UNCHANGED <<op, arg, results, idx, ret>>

\* get_genre: the loops over the listing, then browse_genre on the first match
CallGetGenre ==
    /\ op = "get_genre" /\ pc = "call"
    /\ LET r == GenreCategoriesScan(arg.categories, 1, arg.genre_name) IN
       IF r = NoMatch
       THEN pc' = "done" /\ ret' = None /\ UNCHANGED <<requests, doc>>
       ELSE IF r = Raised
       THEN pc' = "raised" /\ ret' = Raised /\ UNCHANGED <<requests, doc>>
       ELSE /\ requests' = Append(requests, [endpoint |-> "browse",
                                             body |-> BrowseBody(r.params)])
            /\ doc' = _send_request("browse", BrowseBody(r.params))
            /\ pc' = "header"
            /\ UNCHANGED ret
    /\ UNCHANGED <<op, arg, results, idx>>

CallListGenres ==
    /\ op = "list_genres" /\ pc = "call"
    /\ ret' = list_genres(arg.categories)
    /\ pc' = "done"
    /\ UNCHANGED <<op, arg, doc, results, idx, requests>>

NextMixin ==
    \/ CallBrowseGenre \/ CallGetGenre \/ CallListGenres
    \/ ParseHeader \/ NavContents \/ ParseSection \/ ReturnResults

SpecMixin == InitMixin /\ [][NextMixin]_vars

(**************************** claims on the mixin **************************)

\* the items of the listing, in category order then item order
RECURSIVE AllItems(_)
AllItems(categories) ==
    IF categories = <<>> THEN <<>>
    ELSE Head(categories).items \o AllItems(Tail(categories))

\* the spellings of one title that differ in case only
CaseClasses == { {"Rock", "rock", "ROCK"}, {"Pop", "pop"}, {"Jazz", "jazz"} }

SameIgnoringCase(a, b) == a = b \/ \E class \in CaseClasses : a \in class /\ b \in class

TitleMatches(item) ==
    "title" \in DOMAIN item.v /\ SameIgnoringCase(item.v.title.v, arg.genre_name)

GetGenreEnded == op = "get_genre" /\ pc \in {"done", "raised"}

RECURSIVE Offset(_, _)
Offset(categories, c) ==
    IF c <= 1 THEN 0 ELSE Offset(categories, c - 1) + Len(categories[c - 1].items)

FieldOrNone(item, key) == IF key \in DOMAIN item.v THEN item.v[key] ELSE None

\* C8: list_genres returns one entry per item of the listing, in category
\* order then item order, with the category name and the title and params of
\* the item, None for a field the item lacks.
C8_OneEntryPerItem ==
    (op = "list_genres" /\ pc = "done") =>
        LET cats == arg.categories IN
        /\ Len(ret) = Offset(cats, Len(cats) + 1)
        /\ \A c \in 1..Len(cats) : \A i \in 1..Len(cats[c].items) :
              ret[Offset(cats, c) + i] =
                  [category |-> cats[c].name,
                   title |-> FieldOrNone(cats[c].items[i], "title"),
                   params |-> FieldOrNone(cats[c].items[i], "params")]

\* a returned list of two categories with two items each, among them an item
\* without title and an item without params
C8_Witness ==
    /\ op = "list_genres" /\ pc = "done"
    /\ Len(arg.categories) = 2
    /\ Len(arg.categories[1].items) = 2 /\ Len(arg.categories[2].items) = 2
    /\ Len(ret) = 4
    /\ ret[1].category # ret[3].category
    /\ \E n \in 1..Len(ret) : ret[n].title = None
    /\ \E n \in 1..Len(ret) : ret[n].params = None

====
